---- MODULE Spec2Model ----
(***************************************************************************)
(* Model of scripts/add_swift_file.py: the editor that adds a Swift file   *)
(* to the Xcode project manifest (project.pbxproj).                        *)
(*                                                                         *)
(* Text is a sequence of atoms.  An atom is a string that stands for the   *)
(* same characters in the file; the atoms are chosen so that a text has    *)
(* one atomisation only: ")" and ";" are atoms of their own, a block       *)
(* comment is "/* " content " */", white space is made of the atoms of     *)
(* Space, and no other atom holds a ")" or is cut by a pattern the script  *)
(* searches for.  Substring search, str.replace, str.rstrip and the two    *)
(* regular expressions are computed on atoms as Python computes them on    *)
(* characters.                                                             *)
(***************************************************************************)
EXTENDS Integers, Sequences, FiniteSets, TLC

(***************************************************************************)
(* Bounds of the model.                                                    *)
(***************************************************************************)
\* number of sequential invocations of the script in one behaviour
MaxCalls == 2

(***************************************************************************)
(* White space and the literal atoms of the manifest.                      *)
(***************************************************************************)
T2 == "\t\t"
NL == "\n"
NL3 == "\n\t\t\t"
NL4 == "\n\t\t\t\t"
SP == " "
Space == {T2, NL, NL3, NL4, SP}

CO == "/* "
CC == " */"
RP == ")"
SC == ";"
OB == " = {"

\* '/* End PBXFileReference section */' and '/* End PBXBuildFile section */'
EndFileRefMarker == <<CO, "End PBXFileReference section", CC>>
EndBuildFileMarker == <<CO, "End PBXBuildFile section", CC>>

\* GROUP_IDS
GROUP_IDS ==
  [ Models     |-> "228C21072ED56D9100F0ACD5",
    Views      |-> "228C21172ED56D9100F0ACD5",
    ViewModels |-> "228C21112ED56D9100F0ACD5",
    Services   |-> "228C210D2ED56D9100F0ACD5",
    Components |-> "228C21142ED56D9100F0ACD5" ]

\* the identifier the sources pattern is anchored to
SourcesId == "0B1A00271A2A3A4A5A6A7A8A"

(***************************************************************************)
(* Python's string operations, on atoms.                                   *)
(***************************************************************************)
\* s[i:] and s[:i] with 1-based i: the atoms from i on, the atoms before i
From(s, i) == SubSeq(s, i, Len(s))
Upto(s, i) == SubSeq(s, 1, i - 1)

\* p occurs in s at position i
OccursAt(s, p, i) ==
  /\ i >= 1
  /\ i + Len(p) - 1 <= Len(s)
  /\ \A k \in 1..Len(p) : s[i + k - 1] = p[k]

\* p in s
Contains(s, p) == \E i \in 1..Len(s) : s[i] = p[1] /\ OccursAt(s, p, i)

Min(S) == CHOOSE x \in S : \A y \in S : x <= y
Max(S) == CHOOSE x \in S : \A y \in S : x >= y

\* s.replace(old, new): every non-overlapping occurrence, from the left;
\* occ is where old occurs in s, i is where the scan stands
RECURSIVE ReplaceFrom(_, _, _, _, _)
ReplaceFrom(s, occ, width, new, i) ==
  LET found == {j \in occ : j >= i}
  IN  IF found = {} THEN From(s, i)
      ELSE SubSeq(s, i, Min(found) - 1) \o new
             \o ReplaceFrom(s, occ, width, new, Min(found) + width)

Replace(s, old, new) ==
  ReplaceFrom(s, {j \in 1..Len(s) : s[j] = old[1] /\ OccursAt(s, old, j)},
              Len(old), new, 1)

\* s.rstrip(): s up to its last atom that is no white space
RStrip(s) == SubSeq(s, 1, Max({0} \cup {j \in 1..Len(s) : s[j] \notin Space}))

\* s.endswith('.swift') for a filename, whose extension is its last atom
EndsWithSwift(fn) == fn # <<>> /\ fn[Len(fn)] = ".swift"

(***************************************************************************)
(* Regular expressions.                                                    *)
(***************************************************************************)
\* \s* followed by a literal that is no white space: the first position
\* from i on that holds no white space (Len(s) + 1 when there is none)
SkipSpace(s, i) ==
  CHOOSE j \in i..(Len(s) + 1) :
    /\ j = Len(s) + 1 \/ s[j] \notin Space
    /\ \A k \in i..(j - 1) : s[k] \in Space

\* [^)]*? followed by \);  from i on: the position of the first ")" when a
\* ";" follows it, 0 when there is no ")" or something else follows it
ListEnd(s, i) ==
  IF \E j \in i..Len(s) : s[j] = RP
  THEN LET close == CHOOSE j \in i..Len(s) :
                      s[j] = RP /\ \A k \in i..(j - 1) : s[k] # RP
       IN  IF OccursAt(s, <<RP, SC>>, close) THEN close ELSE 0
  ELSE 0

\* a match: group 2 is s[start2 .. end2 - 1]
NoMatch == [found |-> FALSE, start2 |-> 0, end2 |-> 0]
Match(a, b) == [found |-> TRUE, start2 |-> a, end2 |-> b]

\* the group pattern tried at position i
GroupMatchAt(s, group, i) ==
  LET head == <<GROUP_IDS[group], SP, CO, group, CC, OB>>
      j == SkipSpace(s, i + Len(head))
      k == SkipSpace(s, j + 1)
  IN  IF /\ OccursAt(s, head, i)
         /\ OccursAt(s, <<"isa = PBXGroup;">>, j)
         /\ OccursAt(s, <<"children = (">>, k)
         /\ ListEnd(s, k + 1) # 0
      THEN Match(k + 1, ListEnd(s, k + 1))
      ELSE NoMatch

\* re.search(pattern, content): the match at the leftmost position
GroupSearch(s, group) ==
  LET at == {i \in 1..Len(s) : s[i] = GROUP_IDS[group] /\ GroupMatchAt(s, group, i).found}
  IN  IF at = {} THEN NoMatch ELSE GroupMatchAt(s, group, Min(at))

\* .*?files = \(([^)]*?)(\);) from i on, with re.DOTALL: the first
\* 'files = (' whose list closes with ');' at its first ')'
FilesFrom(s, i) ==
  LET at == {j \in i..Len(s) : s[j] = "files = (" /\ ListEnd(s, j + 1) # 0}
  IN  IF at = {} THEN NoMatch ELSE Match(Min(at) + 1, ListEnd(s, Min(at) + 1))

\* the sources pattern tried at position i
SourcesMatchAt(s, i) ==
  LET head == <<SourcesId, SP, CO, "Sources", CC, OB>>
      j == SkipSpace(s, i + Len(head))
  IN  IF /\ OccursAt(s, head, i)
         /\ OccursAt(s, <<"isa = PBXSourcesBuildPhase;">>, j)
      THEN FilesFrom(s, j + 1)
      ELSE NoMatch

SourcesSearch(s) ==
  LET at == {i \in 1..Len(s) : s[i] = SourcesId /\ SourcesMatchAt(s, i).found}
  IN  IF at = {} THEN NoMatch ELSE SourcesMatchAt(s, Min(at))

(***************************************************************************)
(* The texts the script builds.                                            *)
(***************************************************************************)
\* f'path = {filename};'
PathText(fn) == <<"path = ">> \o fn \o <<SC>>

fileref_entry(fileref_id, fn) ==
  <<T2, fileref_id, SP, CO>> \o fn
    \o <<CC, OB, "isa = PBXFileReference; lastKnownFileType = sourcecode.swift; ">>
    \o PathText(fn) \o <<" sourceTree = \"<group>\"; };", NL>>

buildfile_entry(buildfile_id, fileref_id, fn) ==
  <<T2, buildfile_id, SP, CO>> \o fn
    \o <<" in Sources", CC, OB, "isa = PBXBuildFile; fileRef = ", fileref_id, SP, CO>>
    \o fn \o <<CC, "; };", NL>>

\* f'\n\t\t\t\t{fileref_id} /* {filename} */,'
ChildLine(fileref_id, fn) == <<NL4, fileref_id, SP, CO>> \o fn \o <<CC, ",">>

\* f'\n\t\t\t\t{buildfile_id} /* {filename} in Sources */,'
SourceLine(buildfile_id, fn) ==
  <<NL4, buildfile_id, SP, CO>> \o fn \o <<" in Sources", CC, ",">>

(***************************************************************************)
(* The four insertions of add_file_to_project.                             *)
(***************************************************************************)
AddFileRef(content, fn, fileref_id) ==
  Replace(content, EndFileRefMarker,
          fileref_entry(fileref_id, fn) \o EndFileRefMarker)

AddBuildFile(content, fn, fileref_id, buildfile_id) ==
  Replace(content, EndBuildFileMarker,
          buildfile_entry(buildfile_id, fileref_id, fn) \o EndBuildFileMarker)

\* content[:match.start(2)] + group(2).rstrip() + line + '\n\t\t\t' + content[match.end(2):]
Splice(content, m, line) ==
  Upto(content, m.start2)
    \o RStrip(SubSeq(content, m.start2, m.end2 - 1)) \o line \o <<NL3>>
    \o From(content, m.end2)

AddToGroup(content, fn, group, fileref_id) ==
  LET m == GroupSearch(content, group)
  IN  IF m.found THEN Splice(content, m, ChildLine(fileref_id, fn)) ELSE content

AddToSources(content, fn, buildfile_id) ==
  LET m == SourcesSearch(content)
  IN  IF m.found THEN Splice(content, m, SourceLine(buildfile_id, fn)) ELSE content

\* lines 66-89: the text after the two entries and the group insertion
AfterGroup(content, fn, group, fileref_id, buildfile_id) ==
  AddToGroup(
    AddBuildFile(AddFileRef(content, fn, fileref_id), fn, fileref_id, buildfile_id),
    fn, group, fileref_id)

\* lines 66-99: the text written back
Edited(content, fn, group, fileref_id, buildfile_id) ==
  AddToSources(AfterGroup(content, fn, group, fileref_id, buildfile_id),
               fn, buildfile_id)

\* line 38
KnownGroup(group) == group \in DOMAIN GROUP_IDS

AlreadyExists_name(content, fn) == Contains(content, <<"name = ">> \o fn \o <<SC>>)

\* line 56
AlreadyExists(content, fn) == Contains(content, PathText(fn))

BackupText_edited(content, fn, group, fileref_id, buildfile_id) ==
  Edited(content, fn, group, fileref_id, buildfile_id)

\* line 63: the text written to the backup, the text that was read
BackupText(content, fn, group, fileref_id, buildfile_id) == content

(***************************************************************************)
(* add_file_to_project and main.                                           *)
(*                                                                         *)
(* A file is [exists, text].  ops is the sequence of file operations of    *)
(* the call, out the lines it prints (by kind).                            *)
(***************************************************************************)
NoFile == [exists |-> FALSE, text |-> <<>>]
File(text) == [exists |-> TRUE, text |-> text]

Failed(content, oldBackup, ids, ops, out) ==
  [success |-> FALSE, manifest |-> content, backup |-> oldBackup,
   ids |-> ids, ops |-> ops, out |-> out]

AddValidated_strict(content, fn, group, fileref_id, buildfile_id) ==
  LET done == [success |-> TRUE,
               manifest |-> Edited(content, fn, group, fileref_id, buildfile_id),
               backup |-> File(content),
               ids |-> <<fileref_id, buildfile_id>>,
               ops |-> <<"read manifest", "write backup", "write manifest">>,
               out |-> <<"adding", "backup saved", "success">>]
      c2 == AddBuildFile(AddFileRef(content, fn, fileref_id), fn, fileref_id, buildfile_id)
      c3 == AddToGroup(c2, fn, group, fileref_id)
  IN  IF GroupSearch(c2, group).found /\ SourcesSearch(c3).found THEN done
      ELSE [done EXCEPT !.success = FALSE, !.manifest = content,
                        !.ops = <<"read manifest", "write backup">>,
                        !.out = <<"adding", "backup saved">>]

\* lines 60-106: past both gates
AddValidated(content, fn, group, fileref_id, buildfile_id) ==
  [success |-> TRUE,
   manifest |-> Edited(content, fn, group, fileref_id, buildfile_id),
   backup |-> File(BackupText(content, fn, group, fileref_id, buildfile_id)),
   ids |-> <<fileref_id, buildfile_id>>,
   ops |-> <<"read manifest", "write backup", "write manifest">>,
   out |-> <<"adding", "backup saved", "success">>]

add_file_to_project_true(content, oldBackup, fn, group, fileref_id, buildfile_id) ==
  IF ~KnownGroup(group)
  THEN [Failed(content, oldBackup, <<>>, <<>>, <<"unknown group", "valid groups">>)
          EXCEPT !.success = TRUE]
  ELSE IF AlreadyExists(content, fn)
  THEN Failed(content, oldBackup, <<fileref_id, buildfile_id>>,
              <<"read manifest">>, <<"adding", "already exists">>)
  ELSE AddValidated(content, fn, group, fileref_id, buildfile_id)

\* lines 37-106, on the files found on disk
add_file_to_project(content, oldBackup, fn, group, fileref_id, buildfile_id) ==
  IF ~KnownGroup(group)
  THEN Failed(content, oldBackup, <<>>, <<>>, <<"unknown group", "valid groups">>)
  ELSE IF AlreadyExists(content, fn)
  THEN Failed(content, oldBackup, <<fileref_id, buildfile_id>>,
              <<"read manifest">>, <<"adding", "already exists">>)
  ELSE AddValidated(content, fn, group, fileref_id, buildfile_id)

Usage(content, oldBackup) ==
  [exit |-> 1, manifest |-> content, backup |-> oldBackup,
   ids |-> <<>>, ops |-> <<>>, out |-> <<"usage">>]

main_swift_only(content, oldBackup, args, fileref_id, buildfile_id) ==
  IF Len(args) + 1 < 3 \/ ~EndsWithSwift(args[1])
  THEN Usage(content, oldBackup)
  ELSE LET r == add_file_to_project(content, oldBackup, args[1], args[2],
                                    fileref_id, buildfile_id)
       IN  [exit |-> IF r.success THEN 0 ELSE 1,
            manifest |-> r.manifest, backup |-> r.backup,
            ids |-> r.ids, ops |-> r.ops, out |-> r.out]

\* lines 108-120: args is sys.argv[1:]
main(content, oldBackup, args, fileref_id, buildfile_id) ==
  IF Len(args) + 1 < 3
  THEN Usage(content, oldBackup)
  ELSE LET r == add_file_to_project(content, oldBackup, args[1], args[2],
                                    fileref_id, buildfile_id)
           warn == IF EndsWithSwift(args[1]) THEN <<>> ELSE <<"warning">>
       IN  [exit |-> IF r.success THEN 0 ELSE 1,
            manifest |-> r.manifest, backup |-> r.backup,
            ids |-> r.ids, ops |-> r.ops, out |-> warn \o r.out]

(***************************************************************************)
(* generate_id.                                                            *)
(***************************************************************************)
\* string.hexdigits
hexdigits ==
  <<"0", "1", "2", "3", "4", "5", "6", "7", "8", "9",
    "a", "b", "c", "d", "e", "f", "A", "B", "C", "D", "E", "F">>

\* str.upper(), on one character of hexdigits and on a string
UpperChar(c) ==
  CASE c = "a" -> "A" [] c = "b" -> "B" [] c = "c" -> "C"
    [] c = "d" -> "D" [] c = "e" -> "E" [] c = "f" -> "F" [] OTHER -> c
Upper(s) == [i \in DOMAIN s |-> UpperChar(s[i])]

\* the slice [:16] of line 34 and the range(24) of line 35
SliceEnd == 16
IdLength == 24

chars_lower == SubSeq(hexdigits, 1, SliceEnd)

\* line 34: chars = string.hexdigits.upper()[:16]
chars == SubSeq(Upper(hexdigits), 1, SliceEnd)

(***************************************************************************)
(* Inputs: filenames, group names, identifiers, manifests.                 *)
(***************************************************************************)
Foo == <<"Foo", ".swift">>
Bar == <<"Bar", ".txt">>
Old == <<"Old", ".swift">>
Baz == <<"Baz(1", RP, ".swift">>
Sect == <<"End PBXBuildFile section">>
\* the files to add: two plain names, one with a parenthesis, one that reads
\* like the marker of line 76
FileNames == {Foo, Bar, Baz, Sect}

GroupNames == {"Models", "Views", "Services"}

\* what generate_id may return, two of the 16^24 identifiers
IdPool == {"5F0C9A3B7D1E24680ACE1357", "9B2D4F6A8C0E13579BDF0246"}
\* the two identifiers of one call
IdPairs == {p \in IdPool \X IdPool : p[1] # p[2]}

\* sys.argv[1:]: too few arguments, a group that is not known, the file the
\* manifest starts with, and every file to add with every group
Args ==
  {<<>>, <<Foo>>, <<Bar, "Utilities">>, <<Old, "Views">>}
    \cup {<<f, g>> : f \in FileNames, g \in GroupNames}

\* the arguments of the concurrent invocations
ConcArgs == {<<f, g>> : f \in {Foo, Bar, Old}, g \in {"Models", "Views", "Utilities"}}

OldFileRef == "228C21202ED56D9100F0ACD5"
OldBuildFile == "228C21212ED56D9100F0ACD5"
TestSourcesId == "0B1A00371A2A3A4A5A6A7A8A"
OtherSourcesId == "0B1A00281A2A3A4A5A6A7A8A"

\* text of the manifest that no pattern of the script can match is one atom
GroupDecl(group, children) ==
  <<T2, GROUP_IDS[group], SP, CO, group, CC, OB, NL3, "isa = PBXGroup;", NL3,
    "children = (">> \o children
    \o <<NL3, RP, SC, NL3, "path = ", group, SC,
         "\n\t\t\tsourceTree = \"<group>\";\n\t\t};\n">>

PhaseDecl(id, files) ==
  <<T2, id, SP, CO, "Sources", CC, OB, NL3, "isa = PBXSourcesBuildPhase;",
    "\n\t\t\tbuildActionMask = 2147483647;\n\t\t\t", "files = (">> \o files
    \o <<NL3, RP, SC, "\n\t\t\trunOnlyForDeploymentPostprocessing = 0;\n\t\t};\n">>

\* a project.pbxproj with one file, Old.swift, in Views: the markers are
\* there or not, the main target's sources phase has the identifier the
\* script expects or another one; the test target's phase follows it
Manifest(fileRefMarker, buildFileMarker, sourcesId) ==
  <<"// !$*UTF8*$!\n{\n/* Begin PBXBuildFile section */\n">>
    \o buildfile_entry(OldBuildFile, OldFileRef, Old)
    \o (IF buildFileMarker THEN EndBuildFileMarker ELSE <<>>)
    \o <<"\n\n/* Begin PBXFileReference section */\n">>
    \o fileref_entry(OldFileRef, Old)
    \o (IF fileRefMarker THEN EndFileRefMarker ELSE <<>>)
    \o <<"\n\n/* Begin PBXGroup section */\n">>
    \o GroupDecl("Models", <<>>)
    \o GroupDecl("Views", ChildLine(OldFileRef, Old))
    \o <<"/* End PBXGroup section */\n\n/* Begin PBXSourcesBuildPhase section */\n">>
    \o PhaseDecl(sourcesId, SourceLine(OldBuildFile, Old))
    \o PhaseDecl(TestSourcesId, <<>>)
    \o <<"/* End PBXSourcesBuildPhase section */\n}\n">>

Manifests ==
  { Manifest(TRUE, TRUE, SourcesId), Manifest(FALSE, TRUE, SourcesId),
    Manifest(TRUE, FALSE, SourcesId), Manifest(TRUE, TRUE, OtherSourcesId) }

(***************************************************************************)
(* State.                                                                  *)
(***************************************************************************)
VARIABLES
  manifest,   \* text of Flipix/Flipix.xcodeproj/project.pbxproj
  backup,     \* the file project.pbxproj.backup
  orig,       \* the manifest before the first run
  run,        \* the last sequential run: arguments, result, what it found
  calls,      \* sequential runs so far
  pc,         \* concurrent invocations: where each process stands
  loc,        \* concurrent invocations: the locals of each process
  log,        \* concurrent invocations: the file operations, in order
  idLen,      \* generate_id: characters joined so far
  idChar,     \* generate_id: the character joined last
  idDone      \* generate_id: has returned

vars == <<manifest, backup, orig, run, calls, pc, loc, log, idLen, idChar, idDone>>

Procs == {1, 2}

NoRun == [args |-> <<>>, exit |-> -1, ids |-> <<>>, ops |-> <<>>, out |-> <<>>,
          before |-> <<>>, backupBefore |-> NoFile]
NoLocals == [args |-> <<>>, ids |-> <<>>, content |-> <<>>, exit |-> -1]

Files ==
  /\ manifest \in Manifests
  /\ orig = manifest
  /\ backup = NoFile

NoSequential == run = NoRun /\ calls = 0
NoProcesses == pc = [p \in Procs |-> "none"] /\ loc = [p \in Procs |-> NoLocals] /\ log = <<>>
NoId == idLen = 0 /\ idChar = "" /\ idDone = FALSE

(***************************************************************************)
(* Sequential runs: Spec.                                                  *)
(***************************************************************************)
Init == Files /\ NoSequential /\ NoProcesses /\ NoId

\* one run of the script, from process start to exit
Main(args, fileref_id, buildfile_id) ==
  /\ calls < MaxCalls
  /\ calls' = calls + 1
  /\ \E r \in {main(manifest, backup, args, fileref_id, buildfile_id)} :
       /\ manifest' = r.manifest
       /\ backup' = r.backup
       /\ run' = [args |-> args, exit |-> r.exit, ids |-> r.ids, ops |-> r.ops,
                  out |-> r.out, before |-> manifest, backupBefore |-> backup]
  /\ UNCHANGED <<orig, pc, loc, log, idLen, idChar, idDone>>

Next == \E args \in Args, ids \in IdPairs : Main(args, ids[1], ids[2])

Spec == Init /\ [][Next]_vars

(***************************************************************************)
(* Two concurrent runs on the same manifest: SpecConc.  A process takes    *)
(* a step at each file operation; a with-block (open, read or write,       *)
(* close) is one step.                                                     *)
(***************************************************************************)
InitConc ==
  /\ Files /\ NoSequential /\ NoId
  /\ pc = [p \in Procs |-> "start"]
  /\ loc = [p \in Procs |-> NoLocals]
  /\ log = <<>>

Event(p, op) == [p |-> p, op |-> op]

\* lines 109-49: the arguments, the group gate, the identifiers
Start(p, args, ids) ==
  /\ pc[p] = "start"
  /\ IF Len(args) + 1 < 3 \/ ~KnownGroup(args[2])
     THEN /\ pc' = [pc EXCEPT ![p] = "done"]
          /\ loc' = [loc EXCEPT ![p] = [NoLocals EXCEPT !.args = args, !.exit = 1]]
     ELSE /\ pc' = [pc EXCEPT ![p] = "read"]
          /\ loc' = [loc EXCEPT ![p] = [NoLocals EXCEPT !.args = args, !.ids = ids]]
  /\ UNCHANGED <<manifest, backup, orig, run, calls, log, idLen, idChar, idDone>>

\* lines 52-58: read the manifest, the duplicate gate
Read(p) ==
  /\ pc[p] = "read"
  /\ log' = Append(log, Event(p, "read manifest"))
  /\ IF AlreadyExists(manifest, loc[p].args[1])
     THEN /\ pc' = [pc EXCEPT ![p] = "done"]
          /\ loc' = [loc EXCEPT ![p].content = manifest, ![p].exit = 1]
     ELSE /\ pc' = [pc EXCEPT ![p] = "backup"]
          /\ loc' = [loc EXCEPT ![p].content = manifest]
  /\ UNCHANGED <<manifest, backup, orig, run, calls, idLen, idChar, idDone>>

\* lines 61-99: write the backup, then edit the text in memory
Backup(p) ==
  /\ pc[p] = "backup"
  /\ \E l \in {loc[p]} :
       /\ backup' = File(BackupText(l.content, l.args[1], l.args[2], l.ids[1], l.ids[2]))
       /\ loc' = [loc EXCEPT ![p].content =
                    Edited(l.content, l.args[1], l.args[2], l.ids[1], l.ids[2])]
  /\ log' = Append(log, Event(p, "write backup"))
  /\ pc' = [pc EXCEPT ![p] = "write"]
  /\ UNCHANGED <<manifest, orig, run, calls, idLen, idChar, idDone>>

\* a script that would edit the manifest as it is on disk when it writes
Write_merge(p) ==
  /\ pc[p] = "write"
  /\ \E l \in {loc[p]} :
       manifest' = Edited(manifest, l.args[1], l.args[2], l.ids[1], l.ids[2])
  /\ log' = Append(log, Event(p, "write manifest"))
  /\ pc' = [pc EXCEPT ![p] = "done"]
  /\ loc' = [loc EXCEPT ![p].exit = 0]
  /\ UNCHANGED <<backup, orig, run, calls, idLen, idChar, idDone>>

\* lines 102-120: write the manifest, exit 0
Write(p) ==
  /\ pc[p] = "write"
  /\ manifest' = loc[p].content
  /\ log' = Append(log, Event(p, "write manifest"))
  /\ pc' = [pc EXCEPT ![p] = "done"]
  /\ loc' = [loc EXCEPT ![p].exit = 0]
  /\ UNCHANGED <<backup, orig, run, calls, idLen, idChar, idDone>>

NextConc ==
  \E p \in Procs :
    \/ \E args \in ConcArgs, ids \in IdPairs : Start(p, args, ids)
    \/ Read(p)
    \/ Backup(p)
    \/ Write(p)

SpecConc == InitConc /\ [][NextConc]_vars

(***************************************************************************)
(* generate_id: SpecId.  The identifier is built one character at a time;  *)
(* the state keeps its length and the character joined last, so every      *)
(* character of every identifier is the value of idChar in some state.     *)
(***************************************************************************)
InitId ==
  /\ manifest = Manifest(TRUE, TRUE, SourcesId) /\ orig = manifest /\ backup = NoFile
  /\ NoSequential /\ NoProcesses /\ NoId

\* line 35: one random.choice(chars) of the join
Choice(c) ==
  /\ ~idDone /\ idLen < IdLength
  /\ idChar' = c
  /\ idLen' = idLen + 1
  /\ UNCHANGED <<manifest, backup, orig, run, calls, pc, loc, log, idDone>>

\* line 35: the generator is exhausted, the joined string is returned
Return ==
  /\ ~idDone /\ idLen >= IdLength
  /\ idDone' = TRUE
  /\ UNCHANGED <<manifest, backup, orig, run, calls, pc, loc, log, idLen, idChar>>

NextId == (\E i \in 1..Len(chars) : Choice(chars[i])) \/ Return

SpecId == InitId /\ [][NextId]_vars

(***************************************************************************)
(* What the properties speak of: entries, lists, the last run.             *)
(***************************************************************************)
CountOcc(s, p) == Cardinality({i \in 1..Len(s) : s[i] = p[1] /\ OccursAt(s, p, i)})

\* file-reference entries and build-file entries recorded for a filename
FileRefEntries(s, fn) ==
  CountOcc(s, <<"isa = PBXFileReference; lastKnownFileType = sourcecode.swift; ">>
                \o PathText(fn))
BuildFileEntries(s, fn) ==
  CountOcc(s, <<CO>> \o fn \o <<" in Sources", CC, OB, "isa = PBXBuildFile; fileRef = ">>)

\* the body of the list that opens before position i: up to its closing ');'
ListAt(s, i) ==
  SubSeq(s, i, Min({j \in i..Len(s) : OccursAt(s, <<RP, SC>>, j)}) - 1)

\* the children list of a group, the files list of a build phase
ChildrenOf(s, group) ==
  LET h == Min({i \in 1..Len(s) :
                  OccursAt(s, <<GROUP_IDS[group], SP, CO, group, CC, OB>>, i)})
  IN  ListAt(s, Min({j \in h..Len(s) : s[j] = "children = ("}) + 1)
FilesOf(s, id) ==
  LET h == Min({i \in 1..Len(s) : OccursAt(s, <<id, SP, CO, "Sources", CC, OB>>, i)})
  IN  ListAt(s, Min({j \in h..Len(s) : s[j] = "files = ("}) + 1)

FiveGroups == {"Models", "Views", "ViewModels", "Services", "Components"}

Ran == calls > 0
TwoArgs == Len(run.args) >= 2
\* the last run passed the group gate and the duplicate gate
Validated ==
  /\ Ran /\ TwoArgs
  /\ run.args[2] \in FiveGroups
  /\ ~Contains(run.before, PathText(run.args[1]))
\* the texts of the last run, when it passed both gates
TextAfterEntries ==
  AddBuildFile(AddFileRef(run.before, run.args[1], run.ids[1]),
               run.args[1], run.ids[1], run.ids[2])
TextAfterGroup == AddToGroup(TextAfterEntries, run.args[1], run.args[2], run.ids[1])
IndexOf(ops, op) == Min({i \in 1..Len(ops) : ops[i] = op})
Range(f) == {f[i] : i \in DOMAIN f}

(***************************************************************************)
(* C1: a call with a group name that is not one of the five reports        *)
(* failure (exit status 1) and leaves the manifest as it was.              *)
(***************************************************************************)
C1_UnknownGroupFails ==
  (Ran /\ TwoArgs /\ run.args[2] \notin FiveGroups)
    => (run.exit = 1 /\ manifest = run.before)

C1_Witness ==
  /\ Ran /\ TwoArgs /\ run.args[2] = "Utilities"
  /\ run.before # orig /\ run.exit = 1

(***************************************************************************)
(* C2: a call with a recognized group whose filename already is a          *)
(* recorded path of the manifest ('path = <filename>;' occurs in it)       *)
(* reports failure and leaves the manifest as it was.                      *)
(***************************************************************************)
C2_DuplicateFails ==
  (Ran /\ TwoArgs /\ run.args[2] \in FiveGroups
       /\ Contains(run.before, PathText(run.args[1])))
    => (run.exit = 1 /\ manifest = run.before)

C2_Witness ==
  /\ Ran /\ TwoArgs /\ run.args[2] \in FiveGroups
  /\ run.args[1] = Foo /\ Contains(run.before, PathText(Foo))
  /\ run.exit = 1

(***************************************************************************)
(* C3: for a manifest with the two markers, the group's declaration and    *)
(* the sources phase, and a filename not yet in it, a successful call      *)
(* leaves exactly one new file-reference entry and one new build-file      *)
(* entry for the filename, the file reference in the group's children      *)
(* list and the build file in the files list of the sources phase.         *)
(***************************************************************************)
C3_Claim ==
  (/\ Validated /\ run.exit = 0
   /\ Contains(run.before, EndFileRefMarker)
   /\ Contains(run.before, EndBuildFileMarker)
   /\ GroupSearch(run.before, run.args[2]).found
   /\ SourcesSearch(run.before).found)
    => /\ FileRefEntries(manifest, run.args[1])
            = FileRefEntries(run.before, run.args[1]) + 1
       /\ BuildFileEntries(manifest, run.args[1])
            = BuildFileEntries(run.before, run.args[1]) + 1
       /\ Contains(ChildrenOf(manifest, run.args[2]),
                   <<run.ids[1], SP, CO>> \o run.args[1] \o <<CC>>)
       /\ Contains(FilesOf(manifest, SourcesId),
                   <<run.ids[2], SP, CO>> \o run.args[1] \o <<" in Sources", CC>>)

(***************************************************************************)
(* C4: a call that passes both gates writes the backup before it writes    *)
(* the manifest, and the backup then holds the manifest as it was before   *)
(* the call; a call that fails a gate does not write the backup.           *)
(***************************************************************************)
C4_Backup ==
  Ran => IF Validated
         THEN /\ backup = File(run.before)
              /\ "write backup" \in Range(run.ops)
              /\ "write manifest" \in Range(run.ops)
              /\ IndexOf(run.ops, "write backup") < IndexOf(run.ops, "write manifest")
         ELSE /\ backup = run.backupBefore
              /\ "write backup" \notin Range(run.ops)

C4_Witness ==
  /\ Validated /\ run.backupBefore.exists
  /\ backup = File(run.before) /\ backup # run.backupBefore /\ manifest # run.before

(***************************************************************************)
(* C5: the exit status is 0 exactly when the call passes both gates;       *)
(* with fewer than two arguments it is 1 and no file is read or written;   *)
(* a filename without the .swift extension changes neither the status      *)
(* nor the edits.                                                          *)
(***************************************************************************)
C5_ExitStatus ==
  Ran => /\ run.exit \in {0, 1}
         /\ run.exit = 0 <=> Validated
         /\ Len(run.args) < 2 =>
              (run.exit = 1 /\ run.ops = <<>>
                 /\ manifest = run.before /\ backup = run.backupBefore)
         /\ (Validated /\ ~EndsWithSwift(run.args[1])) =>
              manifest = AddToSources(TextAfterGroup, run.args[1], run.ids[2])

C5_Witness ==
  /\ Validated /\ run.args[1] = Bar /\ run.exit = 0
  /\ FileRefEntries(manifest, Bar) = 1

(***************************************************************************)
(* C7: when a call passes both gates and the group pattern or the sources  *)
(* pattern matches nothing, that insertion is skipped, the others are      *)
(* made, the text is written and the call reports success; no call fails   *)
(* after it has written the backup.                                        *)
(***************************************************************************)
C7_SkipStillSucceeds ==
  /\ Validated =>
       LET fn == run.args[1]
           child == ChildLine(run.ids[1], fn)
           source == SourceLine(run.ids[2], fn)
           groupFound == GroupSearch(TextAfterEntries, run.args[2]).found
           sourcesFound == SourcesSearch(TextAfterGroup).found
       IN  /\ run.exit = 0
           /\ run.ops = <<"read manifest", "write backup", "write manifest">>
           /\ ~groupFound => CountOcc(manifest, child) <= CountOcc(run.before, child)
           /\ ~sourcesFound => CountOcc(manifest, source) <= CountOcc(run.before, source)
           /\ (~groupFound /\ sourcesFound) =>
                CountOcc(manifest, source) > CountOcc(run.before, source)
           /\ (groupFound /\ ~sourcesFound) =>
                CountOcc(manifest, child) > CountOcc(run.before, child)
           /\ Contains(run.before, EndFileRefMarker) =>
                FileRefEntries(manifest, fn) > FileRefEntries(run.before, fn)
           /\ Contains(run.before, EndBuildFileMarker) =>
                BuildFileEntries(manifest, fn) > BuildFileEntries(run.before, fn)
           /\ ~groupFound => manifest = AddToSources(TextAfterEntries, fn, run.ids[2])
           /\ ~sourcesFound => manifest = TextAfterGroup
  /\ (Ran /\ "write backup" \in Range(run.ops)) =>
       (run.exit = 0 /\ run.ops[Len(run.ops)] = "write manifest")

C7_Witness ==
  /\ Validated /\ run.exit = 0
  /\ ~GroupSearch(TextAfterEntries, run.args[2]).found
  /\ ~SourcesSearch(TextAfterGroup).found
  /\ FileRefEntries(manifest, run.args[1]) = 1
  /\ manifest # run.before

(***************************************************************************)
(* C8: when the sources insertion is made, the new line is the last entry  *)
(* of the files list of the phase 0B1A00271A2A3A4A5A6A7A8A, the entries    *)
(* that were there keep their content and order, and the files list of     *)
(* the phase that follows is not touched.                                  *)
(***************************************************************************)
C8_Claim ==
  (Validated /\ SourcesSearch(TextAfterGroup).found)
    => /\ Contains(run.before, <<SourcesId, SP, CO, "Sources", CC, OB>>)
       /\ FilesOf(manifest, SourcesId)
            = RStrip(FilesOf(run.before, SourcesId))
                \o SourceLine(run.ids[2], run.args[1]) \o <<NL3>>
       /\ FilesOf(manifest, TestSourcesId) = FilesOf(run.before, TestSourcesId)

(***************************************************************************)
(* C10: for a filename the first manifest has no entry for, the manifest   *)
(* holds at most one file-reference entry and at most one build-file       *)
(* entry after any sequence of calls.                                      *)
(***************************************************************************)
C10_Claim ==
  \A fn \in FileNames :
    (FileRefEntries(orig, fn) = 0 /\ BuildFileEntries(orig, fn) = 0)
      => (FileRefEntries(manifest, fn) <= 1 /\ BuildFileEntries(manifest, fn) <= 1)

(***************************************************************************)
(* C6: an identifier generate_id returns has 24 characters, each of them   *)
(* one of 0-9 and A-F.                                                     *)
(***************************************************************************)
UpperHex == {"0", "1", "2", "3", "4", "5", "6", "7", "8", "9",
             "A", "B", "C", "D", "E", "F"}

C6_IdFormat ==
  /\ idLen > 0 => idChar \in UpperHex
  /\ idDone => idLen = 24

C6_Witness == idDone /\ idLen = 24 /\ idChar = "F"

(***************************************************************************)
(* C9: two concurrent runs with different new filenames that both read     *)
(* the manifest before either writes it.                                   *)
(***************************************************************************)
ReadsBeforeWrites ==
  /\ \A p \in Procs : Event(p, "read manifest") \in Range(log)
  /\ \A i, j \in DOMAIN log :
       (log[i].op = "read manifest" /\ log[j].op = "write manifest") => i < j

Race ==
  /\ \A p \in Procs : pc[p] = "done"
  /\ ReadsBeforeWrites
  /\ loc[1].args[1] # loc[2].args[1]
  /\ \A p \in Procs : ~Contains(orig, PathText(loc[p].args[1]))

LastWriter == log[Len(log)].p
FirstWriter == CHOOSE p \in Procs : p # LastWriter

====
